---- MODULE Spec2Model ----
(***************************************************************************)
(* Lecture notes -> AMP web story generator.                               *)
(*                                                                         *)
(* Two orchestrators share one pipeline:                                   *)
(*   variant 1 = app-single.py (fixed template file, portrait cover)       *)
(*   variant 2 = app.py        (uploaded template, JSON export)            *)
(*                                                                         *)
(* Text is modelled as a sequence of units.  A unit is a string; the units  *)
(* "{" and "}" are the brace characters, every other unit is brace-free.   *)
(* The empty Python string is the empty sequence.  A Python dict is a      *)
(* sequence of [k, v] items in insertion order.                            *)
(***************************************************************************)
EXTENDS Integers, Sequences, FiniteSets, TLC

\* ------------------------------------------------------------------ bounds
MaxSeoLen == 3
MaxTplLen == 4
MaxImgFailures == 2

\* ------------------------------------------------------- program constants
NumSlides == 6

LB == <<"{", "{">>
RB == <<"}", "}">>

\* a {{name}} token as it stands in a template text
Token(name) == LB \o <<name>> \o RB

\* ------------------------------------------------------------ Python dicts
Keys(d) == {d[n].k : n \in 1..Len(d)}

Has(d, k) == k \in Keys(d)

Get(d, k) == d[CHOOSE n \in 1..Len(d) : d[n].k = k].v

DictSet(d, k, v) ==
    IF Has(d, k)
    THEN [n \in 1..Len(d) |-> IF d[n].k = k THEN [k |-> k, v |-> v] ELSE d[n]]
    ELSE Append(d, [k |-> k, v |-> v])

\* an update that loses the last field the dict held
DictUpdate_DropLast(d, e) == SubSeq(d, 1, Len(d) - 1) \o e

RECURSIVE DictUpdate(_, _)
\* dict.update(e): every item of e is set, in order
DictUpdate(d, e) ==
    IF e = <<>> THEN d
    ELSE DictUpdate(DictSet(d, Head(e).k, Head(e).v), Tail(e))

\* (not text) for text = data.get(field): absent (None) or the empty string
Falsy(d, k) == ~Has(d, k) \/ Get(d, k) = <<>>

\* ------------------------------------------------------------- field names
ParagraphFields ==
    <<"s2paragraph1", "s3paragraph1", "s4paragraph1", "s5paragraph1", "s6paragraph1">>

ImageField(n) ==
    <<"s1image1", "s2image1", "s3image1", "s4image1", "s5image1", "s6image1">>[n]

\* the last paragraph is narrated into the audio field of the fifth
AudioMap_Typo ==
    << [field |-> "storytitle",   audio_key |-> "s1audio1"],
       [field |-> "s2paragraph1", audio_key |-> "s2audio1"],
       [field |-> "s3paragraph1", audio_key |-> "s3audio1"],
       [field |-> "s4paragraph1", audio_key |-> "s4audio1"],
       [field |-> "s5paragraph1", audio_key |-> "s5audio1"],
       [field |-> "s6paragraph1", audio_key |-> "s5audio1"] >>

\* the dict literal iterated by the narration loop, in insertion order
AudioMap ==
    << [field |-> "storytitle",   audio_key |-> "s1audio1"],
       [field |-> "s2paragraph1", audio_key |-> "s2audio1"],
       [field |-> "s3paragraph1", audio_key |-> "s3audio1"],
       [field |-> "s4paragraph1", audio_key |-> "s4audio1"],
       [field |-> "s5paragraph1", audio_key |-> "s5audio1"],
       [field |-> "s6paragraph1", audio_key |-> "s6audio1"] >>

SlideFile(n) ==
    <<"slide1.jpg", "slide2.jpg", "slide3.jpg", "slide4.jpg", "slide5.jpg", "slide6.jpg">>[n]

\* uuid.uuid4().hex + ".mp3": a fresh name per synthesized clip
AudioFile(n) ==
    <<"uuid1.mp3", "uuid2.mp3", "uuid3.mp3", "uuid4.mp3", "uuid5.mp3", "uuid6.mp3">>[n]

\* ----------------------------------------------------------- configuration
S3_PREFIX(v) == IF v = 1 THEN <<"media/">> ELSE <<"media">>

CDN_BASE(v) == IF v = 1 THEN <<"https://media.suvichaar.org/">>
                        ELSE <<"https://media.suvichaar.org">>

\* f"{CDN_BASE}{key}" (variant 1)  /  f"{CDN_BASE}/{key}" (variant 2)
CdnUrl(v, key) == IF v = 1 THEN CDN_BASE(v) \o key
                           ELSE CDN_BASE(v) \o <<"/">> \o key

\* ------------------------------------------------------------------- slug
Lower(c) == IF c = "T" THEN "t" ELSE c

RECURSIVE Slug(_, _)
\* title.lower().replace(" ", "-")            (variant 2)
\* title.lower().replace(" ", "-").replace(":", "")   (variant 1)
Slug(title, v) ==
    IF title = <<>> THEN <<>>
    ELSE LET c == Lower(Head(title))
             rest == Slug(Tail(title), v)
         IN  IF c = " " THEN <<"-">> \o rest
             ELSE IF c = ":" /\ v = 1 THEN rest
             ELSE <<c>> \o rest

SlideKey(v, title, n) == S3_PREFIX(v) \o <<"/">> \o Slug(title, v) \o <<"/">> \o <<SlideFile(n)>>

CoverKey(v, title) == S3_PREFIX(v) \o <<"/">> \o Slug(title, v) \o <<"/">> \o <<"portrait_cover.jpg">>

AudioKey(v, fn) == S3_PREFIX(v) \o <<"/audio/">> \o <<fn>>

\* ---------------------------------------------------------- fill_template
RECURSIVE Replace(_, _, _)
\* str.replace(pat, rep): leftmost, non-overlapping occurrences of pat
Replace(s, pat, rep) ==
    IF Len(s) < Len(pat) THEN s
    ELSE IF SubSeq(s, 1, Len(pat)) = pat
         THEN rep \o Replace(SubSeq(s, Len(pat) + 1, Len(s)), pat, rep)
         ELSE <<Head(s)>> \o Replace(Tail(s), pat, rep)

\* a placeholder that tolerates blanks inside the braces
Placeholder_Spaced(k) == LB \o <<" ", k, " ">> \o RB

\* f"{{{{{k}}}}}"
Placeholder(k) == LB \o <<k>> \o RB

\* only the first field of the record is substituted
fill_template_FirstOnly(tpl, data) ==
    IF data = <<>> THEN tpl
    ELSE Replace(tpl, Placeholder(Head(data).k), Head(data).v)

RECURSIVE fill_template(_, _)
fill_template(tpl, data) ==
    IF data = <<>> THEN tpl
    ELSE fill_template(Replace(tpl, Placeholder(Head(data).k), Head(data).v), Tail(data))

\* ------------------------------------------------------------- JSON texts
\* A JSON document is one unit of text; JsonDecode gives the value it denotes.
\* Every other unit ("x", the fences, ...) is not JSON.
Title == <<"T", " ", "a", ":">>

FullStory ==
    << [k |-> "storytitle",   v |-> Title],
       [k |-> "s2paragraph1", v |-> <<"p2">>],
       [k |-> "s3paragraph1", v |-> <<"p3">>],
       [k |-> "s4paragraph1", v |-> <<"p4">>],
       [k |-> "s5paragraph1", v |-> <<"p5">>],
       [k |-> "s6paragraph1", v |-> <<"p6">>],
       [k |-> "s1alt1", v |-> <<"a1">>],
       [k |-> "s2alt1", v |-> <<"a2">>],
       [k |-> "s3alt1", v |-> <<"a3">>],
       [k |-> "s4alt1", v |-> <<"a4">>],
       [k |-> "s5alt1", v |-> <<"a5">>],
       [k |-> "s6alt1", v |-> <<"a6">>] >>

Without(d, key) == SelectSeq(d, LAMBDA it : it.k # key)

AbsentTexts ==
    <<"story_without_storytitle", "story_without_s2paragraph1", "story_without_s3paragraph1",
      "story_without_s4paragraph1", "story_without_s5paragraph1", "story_without_s6paragraph1">>

EmptyTexts ==
    <<"story_empty_storytitle", "story_empty_s2paragraph1", "story_empty_s3paragraph1",
      "story_empty_s4paragraph1", "story_empty_s5paragraph1", "story_empty_s6paragraph1">>

StoryTexts ==
    {"story_full", "story_without_s3alt1", "story_with_s1image1", "story_with_token"}
        \cup {AbsentTexts[n] : n \in 1..NumSlides} \cup {EmptyTexts[n] : n \in 1..NumSlides}

SeoTexts == {"seo_good", "seo_clash"}

JsonTexts == StoryTexts \cup SeoTexts \cup {"null"}

JsonDecode(t) ==
    CASE t = "story_full"           -> FullStory
      [] t = "story_without_s3alt1" -> Without(FullStory, "s3alt1")
      [] t = "story_with_s1image1"  -> Append(FullStory, [k |-> "s1image1", v |-> <<"old">>])
      [] t = "story_with_token"     -> DictSet(FullStory, "s6paragraph1", Token("storytitle"))
      [] t = "seo_good"  -> << [k |-> "metadescription", v |-> <<"d">>],
                               [k |-> "metakeywords",    v |-> <<"k">>] >>
      [] t = "seo_clash" -> << [k |-> "storytitle", v |-> <<"other">>] >>
      [] \E n \in 1..NumSlides : t = AbsentTexts[n] ->
            Without(FullStory, AudioMap[CHOOSE n \in 1..NumSlides : t = AbsentTexts[n]].field)
      [] \E n \in 1..NumSlides : t = EmptyTexts[n] ->
            DictSet(FullStory, AudioMap[CHOOSE n \in 1..NumSlides : t = EmptyTexts[n]].field, <<>>)
      [] OTHER -> <<>>

RECURSIVE LStrip(_)
LStrip(s) == IF s # <<>> /\ Head(s) = " " THEN LStrip(Tail(s)) ELSE s

RECURSIVE RStrip(_)
RStrip(s) == IF s # <<>> /\ s[Len(s)] = " " THEN RStrip(SubSeq(s, 1, Len(s) - 1)) ELSE s

\* str.strip()
Strip(s) == RStrip(LStrip(s))

\* json.loads(text): one JSON document, surrounding whitespace allowed;
\* anything else raises json.JSONDecodeError (ok = FALSE)
json_loads(text) ==
    LET t == Strip(text)
    IN  IF Len(t) = 1 /\ t[1] \in JsonTexts
        THEN [ok |-> TRUE, isDict |-> t[1] # "null", value |-> JsonDecode(t[1])]
        ELSE [ok |-> FALSE, isDict |-> FALSE, value |-> <<>>]

\* ------------------------------------------------------------ generate_seo
\* <fence> stands for the three backticks of a Markdown code fence
FENCE_OPEN == "<fence>json"
FENCE == "<fence>"

\* the opening fence itself starts with the three backticks of the closing fence,
\* so either unit closes an open fence
IsFence(t) == t \in {FENCE_OPEN, FENCE}

\* re.search(<fence>json(.*?)<fence>, content, re.S): the leftmost opening fence
\* that is followed by a fence, lazily up to the first such fence
re_search(content) ==
    LET opens == {p \in 1..Len(content) :
                     /\ content[p] = FENCE_OPEN
                     /\ \E q \in (p + 1)..Len(content) : IsFence(content[q])}
    IN  IF opens = {} THEN [found |-> FALSE, group |-> <<>>]
        ELSE LET p == CHOOSE a \in opens : \A b \in opens : a <= b
                 closes == {q \in (p + 1)..Len(content) : IsFence(content[q])}
                 q == CHOOSE a \in closes : \A b \in closes : a <= b
             IN  [found |-> TRUE, group |-> SubSeq(content, p + 1, q - 1)]

SEO_DEFAULT ==
    << [k |-> "metadescription", v |-> <<>>], [k |-> "metakeywords", v |-> <<>>] >>

\* a generate_seo that warns but returns an empty record on a parse failure
generate_seo_EmptyOnFailure(content) ==
    LET m == re_search(content)
        raw == IF m.found THEN Strip(m.group) ELSE Strip(content)
        r == json_loads(raw)
    IN  IF r.ok
        THEN [failed |-> FALSE, isDict |-> r.isDict, value |-> r.value]
        ELSE [failed |-> TRUE, isDict |-> TRUE, value |-> <<>>]

\* the parsing tail of generate_seo: what it returns for a response text, and
\* whether it warned
generate_seo(content) ==
    LET m == re_search(content)
        raw == IF m.found THEN Strip(m.group) ELSE Strip(content)
        r == json_loads(raw)
    IN  IF r.ok
        THEN [failed |-> FALSE, isDict |-> r.isDict, value |-> r.value]
        ELSE [failed |-> TRUE, isDict |-> TRUE, value |-> SEO_DEFAULT]

\* ------------------------------------------------------------------ inputs
SeqsUpTo(S, n) == UNION {[1..m -> S] : m \in 0..n}

SeoUnits == {FENCE_OPEN, FENCE, " ", "x", "seo_good", "seo_clash", "null"}

\* texts the chat-completion service may return to the SEO request
SeoContents == SeqsUpTo(SeoUnits, MaxSeoLen)

\* texts the chat-completion service may return to the narrative request
NarrativeContents ==
    {<<t>> : t \in StoryTexts}
        \cup {<<"x">>, <<>>, <<" ", "story_full">>, <<FENCE_OPEN, "story_full", FENCE>>}

TplStory ==
    <<"<h1>">> \o Token("storytitle") \o <<"</h1>">> \o Token("s6paragraph1")
        \o Token("metadescription") \o Token("s1image1")
        \o Token("s6audio1") \o Token("portraitcoverurl")
        \o Token("unknown_field") \o Token("storytitle")

\* contents of template-v18.html / of the uploaded template
Templates == {TplStory}

\* ------------------------------------------------------------------- state
VARIABLES
    variant,          \* 1 = app-single.py, 2 = app.py
    imgUploaded,      \* the notes image was supplied
    tplUploaded,      \* the HTML template was supplied (variant 2)
    template,         \* template text
    pc,               \* position of the script
    i,                \* loop index of the slide / narration loop
    story,            \* the Story Record (dict)
    narrative,        \* what generate_story returned
    storyParseFailed, \* json.loads raised in generate_story
    seo,              \* what generate_seo returned
    seoParseFailed,   \* json.loads raised in generate_seo
    warnings,         \* st.warning calls
    errors,           \* slides for which st.error was called
    genFailed,        \* slides whose generation, fetch or decoding raised
    img,              \* the in-memory image
    s3,               \* object storage: set of [key, body]
    cdn_urls,         \* variant 2: narrated field -> URL
    log,              \* external operations performed, in order
    html,             \* final_html
    downloads,        \* download buttons offered
    failedAt,         \* stage at which the run aborted
    cause             \* the exception that aborted the run

vars == << variant, imgUploaded, tplUploaded, template, pc, i, story, narrative,
           storyParseFailed, seo, seoParseFailed, warnings, errors, genFailed, img,
           s3, cdn_urls, log, html, downloads, failedAt, cause >>

Ev(stage, item, op) == [stage |-> stage, item |-> item, op |-> op]

\* s3.upload_fileobj / s3.upload_file: last writer wins on a key
Put(store, key, body) == {o \in store : o.key # key} \cup {[key |-> key, body |-> body]}

GeneratedImage(n) == <<"gen1", "gen2", "gen3", "gen4", "gen5", "gen6">>[n]

\* an uncaught exception ends the script run
Abort(stage, why) == pc' = "aborted" /\ failedAt' = stage /\ cause' = why

Goto(next) == pc' = next /\ UNCHANGED <<failedAt, cause>>

\* fields generate_seo indexes with data[...] while building its prompt
SeoPromptFields == {"storytitle"} \cup {ParagraphFields[n] : n \in 1..Len(ParagraphFields)}

Init ==
    /\ variant \in {1, 2}
    /\ imgUploaded \in BOOLEAN
    /\ tplUploaded \in (IF variant = 2 THEN BOOLEAN ELSE {FALSE})
    /\ template \in (IF tplUploaded THEN Templates ELSE {<<>>})
    /\ pc = "start"
    /\ i = 0
    /\ story = <<>>
    /\ narrative = <<>>
    /\ storyParseFailed = FALSE
    /\ seo = <<>>
    /\ seoParseFailed = FALSE
    /\ warnings = 0
    /\ errors = {}
    /\ genFailed = {}
    /\ img = "none"
    /\ s3 = {}
    /\ cdn_urls = <<>>
    /\ log = <<>>
    /\ html = <<>>
    /\ downloads = {}
    /\ failedAt = "none"
    /\ cause = "none"

\* ----------------------------------------------------------- orchestrator
\* the upload gate: st.stop() without an image (variant 1), the
\* if img_file and template_file block (variant 2)
Start ==
    /\ pc = "start"
    /\ pc' = IF (variant = 1 /\ imgUploaded) \/ (variant = 2 /\ imgUploaded /\ tplUploaded)
             THEN "extract" ELSE "waiting"
    /\ UNCHANGED << variant, imgUploaded, tplUploaded, template, i, story, narrative,
                    storyParseFailed, seo, seoParseFailed, warnings, errors, genFailed,
                    img, s3, cdn_urls, log, html, downloads, failedAt, cause >>

ExtractText ==
    /\ pc = "extract"
    /\ log' = Append(log, Ev("extract", 0, "request"))
    /\ \E ok \in BOOLEAN : IF ok THEN Goto("story") ELSE Abort("extract", "service_error")
    /\ UNCHANGED << variant, imgUploaded, tplUploaded, template, i, story, narrative,
                    storyParseFailed, seo, seoParseFailed, warnings, errors, genFailed,
                    img, s3, cdn_urls, html, downloads >>

\* a lenient generate_story that swallows the parse error and goes on with a
\* stock record, the way generate_seo does
GenerateStory_Lenient ==
    /\ pc = "story"
    /\ log' = Append(log, Ev("story", 0, "request"))
    /\ \E content \in NarrativeContents :
          LET r == json_loads(content)
          IN  /\ storyParseFailed' = ~r.ok
              /\ story' = (IF r.ok THEN r.value ELSE FullStory)
              /\ narrative' = story'
              /\ Goto("seo")
    /\ UNCHANGED << variant, imgUploaded, tplUploaded, template, i, seo, seoParseFailed,
                    warnings, errors, genFailed, img, s3, cdn_urls, html, downloads >>

GenerateStory ==
    /\ pc = "story"
    /\ log' = Append(log, Ev("story", 0, "request"))
    /\ \/ /\ Abort("story", "http_error")
          /\ UNCHANGED << story, narrative, storyParseFailed >>
       \/ \E content \in NarrativeContents :
             LET r == json_loads(content)
             IN  /\ storyParseFailed' = ~r.ok
                 /\ IF r.ok
                    THEN story' = r.value /\ narrative' = r.value /\ Goto("seo")
                    ELSE Abort("story", "JSONDecodeError") /\ UNCHANGED << story, narrative >>
    /\ UNCHANGED << variant, imgUploaded, tplUploaded, template, i, seo, seoParseFailed,
                    warnings, errors, genFailed, img, s3, cdn_urls, html, downloads >>

\* generate_seo(story) followed by story.update(seo)
SeoStage ==
    /\ pc = "seo"
    /\ IF \E f \in SeoPromptFields : ~Has(story, f)
       THEN /\ Abort("seo", "KeyError")
            /\ UNCHANGED << log, story, seo, seoParseFailed, warnings, i >>
       ELSE /\ log' = Append(log, Ev("seo", 0, "request"))
            /\ \/ /\ Abort("seo", "http_error")
                  /\ UNCHANGED << story, seo, seoParseFailed, warnings, i >>
               \/ \E content \in SeoContents :
                     LET r == generate_seo(content)
                     IN  /\ seoParseFailed' = r.failed
                         /\ warnings' = (IF r.failed THEN warnings + 1 ELSE warnings)
                         /\ IF r.isDict
                            THEN /\ seo' = r.value
                                 /\ story' = DictUpdate(story, r.value)
                                 /\ i' = 1
                                 /\ Goto("img_gen")
                            ELSE /\ Abort("seo", "TypeError")
                                 /\ UNCHANGED << story, seo, i >>
    /\ UNCHANGED << variant, imgUploaded, tplUploaded, template, narrative,
                    storyParseFailed, errors, genFailed, img, s3, cdn_urls, html,
                    downloads >>

\* ------------------------------------------ generate_images(_and_upload)
SlideTitle == Get(story, "storytitle")

\* one pass of the try/except of the slide loop: on any exception st.error is
\* called and the image behind DEFAULT_ERROR_IMAGE is fetched instead, outside
\* any handler
ImageGenerateStep(fallbackImg, next) ==
    /\ pc = "img_gen"
    /\ \E outcome \in {"ok", "request_error", "fetch_error", "decode_error"} :
          /\ outcome # "ok" => Cardinality(genFailed) < MaxImgFailures
          /\ IF outcome = "ok"
             THEN /\ img' = GeneratedImage(i)
                  /\ log' = Append(log, Ev("images", i, "request"))
                  /\ Goto(next)
                  /\ UNCHANGED << errors, genFailed >>
             ELSE /\ genFailed' = genFailed \cup {i}
                  /\ errors' = errors \cup {i}
                  /\ log' = log \o << Ev("images", i, "request"), Ev("images", i, "fallback") >>
                  /\ \E fetched \in BOOLEAN :
                        IF fetched
                        THEN img' = fallbackImg /\ Goto(next)
                        ELSE Abort("images", "fallback_fetch_error") /\ UNCHANGED img
    /\ UNCHANGED << variant, imgUploaded, tplUploaded, template, i, story, narrative,
                    storyParseFailed, seo, seoParseFailed, warnings, s3, cdn_urls, html,
                    downloads >>

\* the handler reports the error but leaves img as the previous slide left it
ImageGenerate_StaleImage == ImageGenerateStep(img, "img_upload")

\* the upload is left out of the loop body
ImageGenerate_NoUpload == ImageGenerateStep("fallback", "img_record")

ImageGenerate == ImageGenerateStep("fallback", "img_upload")

ImageUpload ==
    /\ pc = "img_upload"
    /\ \E ok \in BOOLEAN :
          IF ok
          THEN /\ s3' = Put(s3, SlideKey(variant, SlideTitle, i), img)
               /\ log' = Append(log, Ev("images", i, "upload"))
               /\ Goto("img_record")
          ELSE /\ Abort("images", "upload_error")
               /\ UNCHANGED << s3, log >>
    /\ UNCHANGED << variant, imgUploaded, tplUploaded, template, i, story, narrative,
                    storyParseFailed, seo, seoParseFailed, warnings, errors, genFailed,
                    img, cdn_urls, html, downloads >>

ImageRecord ==
    /\ pc = "img_record"
    /\ story' = DictSet(story, ImageField(i), CdnUrl(variant, SlideKey(variant, SlideTitle, i)))
    /\ log' = Append(log, Ev("images", i, "record"))
    /\ IF i < NumSlides
       THEN i' = i + 1 /\ Goto("img_gen")
       ELSE IF variant = 1
            THEN i' = i /\ Goto("cover_upload")
            ELSE i' = 1 /\ Goto("aud_synth")
    /\ UNCHANGED << variant, imgUploaded, tplUploaded, template, narrative,
                    storyParseFailed, seo, seoParseFailed, warnings, errors, genFailed,
                    img, s3, cdn_urls, html, downloads >>

\* variant 1: cover_img = img, saved and uploaded once more
CoverUploadOf(cover_img) ==
    /\ pc = "cover_upload"
    /\ \E ok \in BOOLEAN :
          IF ok
          THEN /\ s3' = Put(s3, CoverKey(variant, SlideTitle), cover_img)
               /\ log' = Append(log, Ev("images", NumSlides + 1, "upload"))
               /\ Goto("cover_record")
          ELSE /\ Abort("images", "upload_error")
               /\ UNCHANGED << s3, log >>
    /\ UNCHANGED << variant, imgUploaded, tplUploaded, template, i, story, narrative,
                    storyParseFailed, seo, seoParseFailed, warnings, errors, genFailed,
                    img, cdn_urls, html, downloads >>

\* the cover is taken from the first slide instead of the last
CoverUpload_FirstSlide == CoverUploadOf(GeneratedImage(1))

CoverUpload == CoverUploadOf(img)

CoverRecord ==
    /\ pc = "cover_record"
    /\ story' = DictSet(story, "portraitcoverurl", CdnUrl(variant, CoverKey(variant, SlideTitle)))
    /\ log' = Append(log, Ev("images", NumSlides + 1, "record"))
    /\ i' = 1
    /\ Goto("aud_synth")
    /\ UNCHANGED << variant, imgUploaded, tplUploaded, template, narrative,
                    storyParseFailed, seo, seoParseFailed, warnings, errors, genFailed,
                    img, s3, cdn_urls, html, downloads >>

\* ------------------------------------- synthesize_(and_upload_)audio
\* the end of one pass of the narration loop
AudioNext ==
    IF i < Len(AudioMap)
    THEN i' = i + 1 /\ Goto("aud_synth")
    ELSE i' = i /\ Goto(IF variant = 2 THEN "json_download" ELSE "load_template")

AudioSynthesize ==
    /\ pc = "aud_synth"
    /\ IF Falsy(story, AudioMap[i].field)
       THEN AudioNext /\ UNCHANGED log
       ELSE /\ log' = Append(log, Ev("audio", i, "synthesize"))
            /\ i' = i
            /\ \E ok \in BOOLEAN :
                  IF ok THEN Goto("aud_upload") ELSE Abort("audio", "synthesis_error")
    /\ UNCHANGED << variant, imgUploaded, tplUploaded, template, story, narrative,
                    storyParseFailed, seo, seoParseFailed, warnings, errors, genFailed,
                    img, s3, cdn_urls, html, downloads >>

AudioUpload ==
    /\ pc = "aud_upload"
    /\ \E ok \in BOOLEAN :
          IF ok
          THEN /\ s3' = Put(s3, AudioKey(variant, AudioFile(i)), AudioMap[i].field)
               /\ log' = Append(log, Ev("audio", i, "upload"))
               /\ Goto("aud_record")
          ELSE /\ Abort("audio", "upload_error")
               /\ UNCHANGED << s3, log >>
    /\ UNCHANGED << variant, imgUploaded, tplUploaded, template, i, story, narrative,
                    storyParseFailed, seo, seoParseFailed, warnings, errors, genFailed,
                    img, cdn_urls, html, downloads >>

AudioRecord ==
    /\ pc = "aud_record"
    /\ LET url == CdnUrl(variant, AudioKey(variant, AudioFile(i)))
       IN  /\ story' = DictSet(story, AudioMap[i].audio_key, url)
           /\ cdn_urls' = (IF variant = 2 THEN DictSet(cdn_urls, AudioMap[i].field, url)
                                          ELSE cdn_urls)
    /\ log' = Append(log, Ev("audio", i, "record"))
    /\ AudioNext
    /\ UNCHANGED << variant, imgUploaded, tplUploaded, template, narrative,
                    storyParseFailed, seo, seoParseFailed, warnings, errors, genFailed,
                    img, s3, html, downloads >>

\* --------------------------------------------------------------- the end
\* variant 2: the "Download final JSON" button
JsonDownload ==
    /\ pc = "json_download"
    /\ downloads' = downloads \cup {"json"}
    /\ log' = Append(log, Ev("export", 0, "download"))
    /\ Goto("fill")
    /\ UNCHANGED << variant, imgUploaded, tplUploaded, template, i, story, narrative,
                    storyParseFailed, seo, seoParseFailed, warnings, errors, genFailed,
                    img, s3, cdn_urls, html >>

\* variant 1: open(HTML_TEMPLATE).read()
LoadTemplate ==
    /\ pc = "load_template"
    /\ \E ok \in BOOLEAN :
          IF ok
          THEN \E t \in Templates : template' = t /\ Goto("fill")
          ELSE Abort("fill", "FileNotFoundError") /\ UNCHANGED template
    /\ UNCHANGED << variant, imgUploaded, tplUploaded, i, story, narrative,
                    storyParseFailed, seo, seoParseFailed, warnings, errors, genFailed,
                    img, s3, cdn_urls, log, html, downloads >>

\* final_html = fill_template(...), then the "Download HTML Web Story" button
FillTemplate ==
    /\ pc = "fill"
    /\ html' = fill_template(template, story)
    /\ downloads' = downloads \cup {"html"}
    /\ log' = Append(log, Ev("fill", 0, "fill"))
    /\ Goto("done")
    /\ UNCHANGED << variant, imgUploaded, tplUploaded, template, i, story, narrative,
                    storyParseFailed, seo, seoParseFailed, warnings, errors, genFailed,
                    img, s3, cdn_urls >>

Next ==
    \/ Start
    \/ ExtractText
    \/ GenerateStory
    \/ SeoStage
    \/ ImageGenerate
    \/ ImageUpload
    \/ ImageRecord
    \/ CoverUpload
    \/ CoverRecord
    \/ AudioSynthesize
    \/ AudioUpload
    \/ AudioRecord
    \/ JsonDownload
    \/ LoadTemplate
    \/ FillTemplate

Spec == Init /\ [][Next]_vars

\* ------------------------------------------- fill_template on its own
FillKeys == {"a", "b"}

FillValues == { <<>>, <<"b">>, <<"{">>, <<"}">>, Token("b") }

FillChunks == { <<"{">>, <<"}">>, <<"a">>, <<"b">>, Token("a"), Token("b") }

RECURSIVE Flatten(_)
Flatten(cs) == IF cs = <<>> THEN <<>> ELSE Head(cs) \o Flatten(Tail(cs))

\* template texts: up to MaxTplLen chunks, each a brace, a letter or a placeholder
FillTemplates == {Flatten(cs) : cs \in SeqsUpTo(FillChunks, MaxTplLen)}

\* dicts over FillKeys, in every insertion order
FillRecords ==
    {d \in SeqsUpTo([k : FillKeys, v : FillValues], Cardinality(FillKeys)) :
        \A m, n \in 1..Len(d) : m # n => d[m].k # d[n].k}

InitFill ==
    /\ variant = 2
    /\ imgUploaded = TRUE
    /\ tplUploaded = TRUE
    /\ template \in FillTemplates
    /\ story \in FillRecords
    /\ pc = "fill"
    /\ i = 0
    /\ narrative = <<>>
    /\ storyParseFailed = FALSE
    /\ seo = <<>>
    /\ seoParseFailed = FALSE
    /\ warnings = 0
    /\ errors = {}
    /\ genFailed = {}
    /\ img = "none"
    /\ s3 = {}
    /\ cdn_urls = <<>>
    /\ log = <<>>
    /\ html = <<>>
    /\ downloads = {}
    /\ failedAt = "none"
    /\ cause = "none"

NextFill == FillTemplate

SpecFill == InitFill /\ [][NextFill]_vars

\* ================================================================ claims
InLog(e) == \E p \in 1..Len(log) : log[p] = e

Body(key) == (CHOOSE o \in s3 : o.key = key).body

ImagesCompleted ==
    \/ pc \in {"aud_synth", "aud_upload", "aud_record", "json_download", "load_template",
               "fill", "done"}
    \/ pc = "aborted" /\ failedAt \in {"audio", "fill"}

IsBrace(u) == u \in {"{", "}"}

BraceFree(text) == \A n \in 1..Len(text) : ~IsBrace(text[n])

RECURSIVE WellFormed(_)
\* braces occur only in the delimiters of {{name}} placeholders
WellFormed(tpl) ==
    IF tpl = <<>> THEN TRUE
    ELSE IF ~IsBrace(Head(tpl)) THEN WellFormed(Tail(tpl))
    ELSE /\ Len(tpl) >= 5
         /\ SubSeq(tpl, 1, 2) = LB
         /\ ~IsBrace(tpl[3])
         /\ SubSeq(tpl, 4, 5) = RB
         /\ WellFormed(SubSeq(tpl, 6, Len(tpl)))

BraceFreeValues(d) == \A n \in 1..Len(d) : BraceFree(d[n].v)

HasToken(text, k) ==
    \E p \in 1..(Len(text) - 4) : SubSeq(text, p, p + 4) = Token(k)

RECURSIVE SimultaneousFill(_, _)
\* one pass over the template: every {{name}} with name in the record becomes
\* the record's value, everything else is copied
SimultaneousFill(tpl, data) ==
    IF tpl = <<>> THEN <<>>
    ELSE IF /\ Len(tpl) >= 5
            /\ SubSeq(tpl, 1, 2) = LB
            /\ SubSeq(tpl, 4, 5) = RB
            /\ Has(data, tpl[3])
         THEN Get(data, tpl[3]) \o SimultaneousFill(SubSeq(tpl, 6, Len(tpl)), data)
         ELSE <<Head(tpl)>> \o SimultaneousFill(Tail(tpl), data)

Reordered(d) == {[n \in 1..Len(d) |-> d[f[n]]] : f \in Permutations(1..Len(d))}

C2_SeoParseFailureDegrades ==
    seoParseFailed =>
        /\ seo = << [k |-> "metadescription", v |-> <<>>],
                    [k |-> "metakeywords", v |-> <<>>] >>
        /\ warnings = 1
        /\ ~(pc = "aborted" /\ failedAt = "seo")
        /\ Has(story, "metadescription") /\ Get(story, "metadescription") = <<>>
        /\ Has(story, "metakeywords") /\ Get(story, "metakeywords") = <<>>
        /\ (pc = "img_gen" /\ i = 1) \/ InLog(Ev("images", 1, "request"))

C2_Witness ==
    /\ seoParseFailed
    /\ pc = "img_upload"
    /\ i = 1
    /\ Get(story, "metadescription") = <<>>

\* ------------------------------------------------------------------- C3
\* C3 as stated: a narratable field that the narrative result lacks, or holds as
\* the empty string, does not fail the run; no speech is synthesized for it, its
\* audio field is absent at the end and the other narratable fields have theirs.
C3_MissingFieldOnlySkipsNarration ==
    \A n \in 1..Len(AudioMap) :
        (narrative # <<>> /\ Falsy(narrative, AudioMap[n].field)) =>
            /\ cause # "KeyError"
            /\ ~InLog(Ev("audio", n, "synthesize"))
            /\ pc = "done" =>
                  /\ ~Has(story, AudioMap[n].audio_key)
                  /\ \A m \in 1..Len(AudioMap) :
                        ~Falsy(narrative, AudioMap[m].field) =>
                            Has(story, AudioMap[m].audio_key)

\* ------------------------------------------------------------------- C4
\* C4: a narrative response that is not valid JSON aborts the run in
\* generate_story: no SEO request, image request, synthesis, storage write or
\* download ever happens.
C4_MalformedNarrativeAborts ==
    storyParseFailed =>
        /\ pc = "aborted" /\ failedAt = "story" /\ cause = "JSONDecodeError"
        /\ \A p \in 1..Len(log) : log[p].stage \in {"extract", "story"}
        /\ s3 = {}
        /\ downloads = {}
        /\ story = <<>>

C4_Witness == storyParseFailed /\ pc = "aborted" /\ Len(log) = 2

\* ------------------------------------------------------------------- C5
\* C5 as stated: for any template and record, fill_template gives the template
\* with every {{name}} of a field of the record replaced by its value and
\* everything else, unknown placeholders included, unchanged.
C5_FillIsSimultaneous == pc = "done" => html = SimultaneousFill(template, story)

\* C5 amended: the same, for records whose values hold no brace and templates
\* whose braces occur only as the delimiters of {{name}} placeholders.
C5_FillIsSimultaneousWhenBraceFree ==
    (pc = "done" /\ BraceFreeValues(story) /\ WellFormed(template)) =>
        html = SimultaneousFill(template, story)

C5_Witness ==
    /\ pc = "done"
    /\ story = << [k |-> "a", v |-> <<"b">>] >>
    /\ template = Token("a") \o Token("b")
    /\ html = <<"b">> \o Token("b")

\* ------------------------------------------------------------------- C6
NarrativeKeys == Keys(FullStory)

ExpectedKeys ==
    NarrativeKeys \cup {"metadescription", "metakeywords"}
        \cup {ImageField(n) : n \in 1..NumSlides}
        \cup {"s1audio1", "s2audio1", "s3audio1", "s4audio1", "s5audio1", "s6audio1"}
        \cup (IF variant = 1 THEN {"portraitcoverurl"} ELSE {})

\* every service succeeded and the narrative holds exactly the 12 fields, non-empty
HappyRun ==
    /\ pc = "done"
    /\ genFailed = {}
    /\ Keys(narrative) = NarrativeKeys
    /\ \A k \in NarrativeKeys : Get(narrative, k) # <<>>

\* C6 as stated: a happy run ends with exactly the expected fields and a final
\* HTML that holds no {{name}} for any field of the record.
C6_HappyRunIsComplete ==
    HappyRun =>
        /\ Keys(story) = ExpectedKeys
        /\ \A k \in Keys(story) : ~HasToken(html, k)

\* C6 amended: the same, provided the SEO result has exactly the keys
\* metadescription and metakeywords, no value of the record holds a brace and
\* the template's braces occur only as the delimiters of {{name}} placeholders.
C6_HappyRunIsCompleteWhenWellFormed ==
    (/\ HappyRun
     /\ Keys(seo) = {"metadescription", "metakeywords"}
     /\ BraceFreeValues(story)
     /\ WellFormed(template)) =>
        /\ Keys(story) = ExpectedKeys
        /\ \A k \in Keys(story) : ~HasToken(html, k)

C6_Witness ==
    /\ HappyRun
    /\ variant = 1
    /\ seo = JsonDecode("seo_good")
    /\ template = TplStory
    /\ Len(story) = 27
    /\ HasToken(html, "unknown_field")

\* ------------------------------------------------------------------- C7
StageRank(stage) ==
    CASE stage = "extract" -> 1
      [] stage = "story"   -> 2
      [] stage = "seo"     -> 3
      [] stage = "images"  -> 4
      [] stage = "audio"   -> 5
      [] stage = "export"  -> 6
      [] stage = "fill"    -> 7

OpRank(op) ==
    CASE op \in {"request", "synthesize", "download", "fill"} -> 1
      [] op = "fallback" -> 2
      [] op = "upload"   -> 3
      [] op = "record"   -> 4

Before(e, f) ==
    \/ StageRank(e.stage) < StageRank(f.stage)
    \/ e.stage = f.stage /\ e.item < f.item
    \/ e.stage = f.stage /\ e.item = f.item /\ OpRank(e.op) < OpRank(f.op)

\* something of one of these stages has been done
Begun(stages) == \E q \in 1..Len(log) : log[q].stage \in stages

\* C7: the stages run in the order extraction, narrative, SEO, illustration,
\* narration, filling, each after the previous one is complete; items are taken
\* in increasing index, and an item's upload and the recording of its URL are
\* done before anything is done for the next item.
C7_StagesAndItemsInOrder ==
    /\ \A p \in 1..(Len(log) - 1) : Before(log[p], log[p + 1])
    /\ \A p \in 2..(Len(log) - 1) :
          (log[p + 1].stage = log[p].stage /\ log[p + 1].item # log[p].item) =>
              /\ log[p + 1].item > log[p].item
              /\ log[p - 1] = Ev(log[p].stage, log[p].item, "upload")
              /\ log[p] = Ev(log[p].stage, log[p].item, "record")
    /\ Begun({"story"})  => InLog(Ev("extract", 0, "request"))
    /\ Begun({"seo"})    => InLog(Ev("story", 0, "request")) /\ narrative # <<>>
    /\ Begun({"images"}) => InLog(Ev("seo", 0, "request")) /\ seo # <<>>
    /\ Begun({"audio", "export", "fill"}) =>
          /\ \A n \in 1..NumSlides : InLog(Ev("images", n, "record"))
          /\ variant = 1 => InLog(Ev("images", NumSlides + 1, "record"))
    /\ Begun({"export", "fill"}) =>
          \A n \in 1..Len(AudioMap) :
              ~Falsy(story, AudioMap[n].field) => InLog(Ev("audio", n, "record"))

C7_Witness ==
    /\ pc = "done"
    /\ variant = 2
    /\ genFailed = {2}
    /\ Len(log) = 3 + 3 * NumSlides + 1 + 3 * Len(AudioMap) + 2

\* ------------------------------------------------------------------- C8
\* C8 as stated: once the record exists, every later step keeps every field it
\* holds, with the same value.
C8_FieldsKeepTheirValues ==
    [][\A k \in Keys(story) : Has(story', k) /\ Get(story', k) = Get(story, k)]_vars

\* the field a step of the pipeline writes into the record
WrittenBy(k) ==
    \/ pc = "seo" /\ k \in Keys(seo')
    \/ pc = "img_record" /\ k = ImageField(i)
    \/ pc = "cover_record" /\ k = "portraitcoverurl"
    \/ pc = "aud_record" /\ k = AudioMap[i].audio_key

\* C8 amended: no step removes a field, and a field's value changes only when
\* the step writes that very field name (the SEO merge for the keys of the SEO
\* result, the illustration stage for s{i}image1 and portraitcoverurl, the
\* narration stage for s{i}audio1), which overwrites a value that an earlier
\* response had already put under that name.
C8_FieldsStayAndChangeOnlyWhenWritten ==
    [][\A k \in Keys(story) :
          /\ Has(story', k)
          /\ Get(story', k) # Get(story, k) => WrittenBy(k)]_vars

C8_Witness ==
    /\ pc = "done"
    /\ seo = JsonDecode("seo_clash")
    /\ Get(story, "storytitle") = <<"other">>
    /\ Keys(narrative) \subseteq Keys(story)
    /\ Len(story) > Len(narrative)

\* ------------------------------------------------------------------- C9
\* C9 as stated: for any template and record, substituting the fields in any
\* other order gives the same output as substituting them in insertion order.
C9_OrderIrrelevant ==
    pc = "done" => \A d \in Reordered(story) : fill_template(template, d) = html

\* C9 amended: the same, for records whose values hold no brace and templates
\* whose braces occur only as the delimiters of {{name}} placeholders.
C9_OrderIrrelevantWhenBraceFree ==
    (pc = "done" /\ BraceFreeValues(story) /\ WellFormed(template)) =>
        \A d \in Reordered(story) : fill_template(template, d) = html

C9_Witness ==
    /\ pc = "done"
    /\ story = << [k |-> "b", v |-> <<"b">>], [k |-> "a", v |-> <<>>] >>
    /\ template = Token("a") \o Token("b")
    /\ html = <<"b">>

\* ------------------------------------------------------------------ C10
ImageObjects == {o \in s3 : o.body \in {"fallback"} \cup {GeneratedImage(n) : n \in 1..NumSlides}}

ImageUploads == {p \in 1..Len(log) : log[p].stage = "images" /\ log[p].op = "upload"}

\* C10: variant 1 uploads as portrait_cover.jpg the very image it uploaded for
\* slide 6, records portraitcoverurl after the six slide URLs, and a completed
\* illustration stage has written seven objects; variant 2 writes six and
\* never sets portraitcoverurl.
C10_PortraitCoverIsLastSlide ==
    /\ InLog(Ev("images", NumSlides + 1, "upload")) =>
          /\ variant = 1
          /\ Body(CoverKey(variant, SlideTitle)) = Body(SlideKey(variant, SlideTitle, NumSlides))
          /\ Body(CoverKey(variant, SlideTitle)) =
                (IF NumSlides \in genFailed THEN "fallback" ELSE GeneratedImage(NumSlides))
    /\ \A p \in 1..Len(log) :
          log[p] = Ev("images", NumSlides + 1, "record") =>
              \A n \in 1..NumSlides : \E q \in 1..(p - 1) : log[q] = Ev("images", n, "record")
    /\ Has(story, "portraitcoverurl") =>
          /\ variant = 1
          /\ InLog(Ev("images", NumSlides + 1, "record"))
          /\ Get(story, "portraitcoverurl") = CdnUrl(variant, CoverKey(variant, SlideTitle))
    /\ ImagesCompleted =>
          /\ Cardinality(ImageUploads) = (IF variant = 1 THEN NumSlides + 1 ELSE NumSlides)
          /\ Cardinality(ImageObjects) = (IF variant = 1 THEN NumSlides + 1 ELSE NumSlides)
          /\ variant = 1 => Has(story, "portraitcoverurl")

C10_Witness ==
    /\ variant = 1
    /\ pc = "done"
    /\ genFailed = {6}
    /\ Body(CoverKey(variant, SlideTitle)) = "fallback"
    /\ Cardinality(ImageObjects) = 7

====
